---- MODULE Spec2Model ----
(***************************************************************************)
(* A model of mongo_utils.py: the connection builder get_mongo_client and  *)
(* the four facades fetch_documents, insert_documents, update_documents    *)
(* and delete_documents over one collection of a document store.           *)
(*                                                                         *)
(* Python strings are sequences of one-character strings.  An Optional     *)
(* value is a sequence of length 0 (None) or 1 (the value).  A document,   *)
(* a filter and an update specification are functions from keys to values. *)
(***************************************************************************)
EXTENDS Integers, Sequences, FiniteSets, TLC

VARIABLES
    env,       \* the configuration read from the environment when the module loads
    coll,      \* the collection: its stored documents, in natural order
    nextId,    \* the store's generator of _id values
    inv,       \* the last invocation of a function of the module: name and arguments
    calls,     \* the driver requests that invocation issued, in order
    outcome,   \* "none" before any invocation, then "returned" or "raised"
    raised,    \* the exception that reached the caller, "None" if none did
    result,    \* the value returned: None, or Some(value)
    stdout     \* the messages the invocation printed

vars == <<env, coll, nextId, inv, calls, outcome, raised, result, stdout>>

-----------------------------------------------------------------------------
(* Bounds *)

MaxHostLen == 4     \* longest host string after the optional scheme prefix
MaxBatch == 2       \* longest documents / updates argument
MaxIds == 2         \* the store assigns at most this many _id values in a run

-----------------------------------------------------------------------------
(* Python values *)

None == <<>>
Some(x) == <<x>>

\* str.startswith(prefix)
startswith(s, prefix) ==
    /\ Len(s) >= Len(prefix)
    /\ SubSeq(s, 1, Len(prefix)) = prefix

\* sub in s, for strings
contains(s, sub) ==
    \E i \in 1..(Len(s) - Len(sub) + 1) : SubSeq(s, i, i + Len(sub) - 1) = sub

\* s[n:]
slice_from(s, n) == SubSeq(s, n + 1, Len(s))

\* str.split(sep) for a one-character separator: the list of the pieces
RECURSIVE split(_, _)
split(s, sep) ==
    IF \E i \in 1..Len(s) : s[i] = sep
    THEN LET i == CHOOSE j \in 1..Len(s) :
                      /\ s[j] = sep
                      /\ \A k \in 1..(j - 1) : s[k] # sep
         IN  <<SubSeq(s, 1, i - 1)>> \o split(SubSeq(s, i + 1, Len(s)), sep)
    ELSE <<s>>

-----------------------------------------------------------------------------
(* get_mongo_client *)

SrvPrefix == <<"m","o","n","g","o","d","b","+","s","r","v",":","/","/">>
StdPrefix == <<"m","o","n","g","o","d","b",":","/","/">>
SrvMarker == <<"s","r","v">>

\* host_clean_of without line 68: the query is kept
host_clean_keep_query(host) ==
    LET c1 == IF startswith(host, SrvPrefix)
              THEN slice_from(host, Len(SrvPrefix))
              ELSE host
    IN  split(c1, "/")[1]

\* host_clean after lines 64-68; list[0] is the first element
host_clean_of(host) ==
    LET c1 == IF startswith(host, SrvPrefix)
              THEN slice_from(host, Len(SrvPrefix))
              ELSE host
        c2 == split(c1, "/")[1]
    IN  split(c2, "?")[1]

\* mongo_uri_of choosing the scheme by the prefix of host
mongo_uri_by_prefix(host, username, password) ==
    IF startswith(host, SrvPrefix)
    THEN SrvPrefix \o username \o <<":">> \o password \o <<"@">> \o host_clean_of(host)
    ELSE StdPrefix \o username \o <<":">> \o password \o <<"@">> \o host_clean_of(host)

\* mongo_uri of line 70
mongo_uri_of(host, username, password) ==
    IF contains(host, SrvMarker)
    THEN SrvPrefix \o username \o <<":">> \o password \o <<"@">> \o host_clean_of(host)
    ELSE StdPrefix \o username \o <<":">> \o password \o <<"@">> \o host_clean_of(host)

\* The driver's exceptions
DriverErrors == {"PyMongoError"}
NoError == "None"

\* One driver request: what was asked, and the exception it raised (NoError if none)
Request(op, args, err) == [op |-> op, args |-> args, error |-> err]

\* The invocation ends by returning value, having issued reqs and printed out
Returns(reqs, value, out) ==
    /\ calls' = reqs
    /\ outcome' = "returned"
    /\ raised' = NoError
    /\ result' = value
    /\ stdout' = out

\* The invocation ends with exception err reaching the caller
Raises(reqs, err, out) ==
    /\ calls' = reqs
    /\ outcome' = "raised"
    /\ raised' = err
    /\ result' = None
    /\ stdout' = out

\* Forward with a handler that sends the request once more when it raises
ForwardRetry(req, value, out) ==
    IF req.error = NoError
    THEN Returns(<<req>>, value, out)
    ELSE Returns(<<req, [req EXCEPT !.error = NoError]>>, value, out)

\* A driver request made outside any try block (no function of the module
\* has one): its exception, if it raises, is the invocation's
Forward(req, value, out) ==
    IF req.error = NoError
    THEN Returns(<<req>>, value, out)
    ELSE Raises(<<req>>, req.error, <<>>)

\* get_mongo_client(host, username, password); err is what MongoClient(uri) does
get_mongo_client(host, username, password, err) ==
    LET uri == mongo_uri_of(host, username, password)
    IN  /\ inv' = [fn |-> "get_mongo_client", host |-> host,
                   username |-> username, password |-> password]
        /\ Forward(Request("MongoClient", [uri |-> uri], err),
                   Some([uri |-> uri]), <<>>)
        /\ UNCHANGED <<env, coll, nextId>>

-----------------------------------------------------------------------------
(* The driver: a collection of the store, as pymongo's Collection and Cursor *)

Min(a, b) == IF a < b THEN a ELSE b

\* A dict restricted to the keys ks
Restrict(d, ks) == [k \in ks |-> d[k]]

\* A filter of equalities matches a document that has each field with that value
Matches(d, filter) ==
    \A f \in DOMAIN filter : f \in DOMAIN d /\ d[f] = filter[f]

\* How the driver's request goes: error is NoError, or the exception raised
\* when operation number `at` of the request fails, the earlier ones done
NoFailure == [error |-> NoError, at |-> 0]
Applied(n, fail) == IF fail.error = NoError THEN n ELSE Min(n, fail.at - 1)

\* col.find(filter, projection): a cursor; nothing is sent yet
find(filter, projection) ==
    [filter |-> filter, projection |-> projection, sort |-> None, limit |-> 0]

\* cursor.sort(key_list) and cursor.limit(n); a cursor's limit of 0 is no limit
cursor_sort(cursor, key_list) == [cursor EXCEPT !.sort = Some(key_list)]
cursor_limit(cursor, n) == [cursor EXCEPT !.limit = n]

\* The value a document is sorted by: a missing field sorts before every number
SortValue(d, f) == IF f \in DOMAIN d THEN d[f] ELSE 0

\* d comes before e under the (field, direction) pairs of key_list
RECURSIVE Before(_, _, _)
Before(d, e, key_list) ==
    IF key_list = <<>> THEN FALSE
    ELSE LET f == key_list[1][1]
             dir == key_list[1][2]
             x == SortValue(d, f)
             y == SortValue(e, f)
         IN  IF x = y THEN Before(d, e, Tail(key_list))
             ELSE IF dir = 1 THEN x < y ELSE x > y

\* Stable insertion of d into the sorted sequence docs
RECURSIVE InsertSorted(_, _, _)
InsertSorted(docs, d, key_list) ==
    IF docs = <<>> THEN <<d>>
    ELSE IF Before(d, docs[1], key_list) THEN <<d>> \o docs
    ELSE <<docs[1]>> \o InsertSorted(Tail(docs), d, key_list)

RECURSIVE SortDocs(_, _)
SortDocs(docs, key_list) ==
    IF docs = <<>> THEN <<>>
    ELSE InsertSorted(SortDocs(SubSeq(docs, 1, Len(docs) - 1), key_list),
                      docs[Len(docs)], key_list)

\* A projection: with a field other than _id set to 1 the listed fields are
\* kept, and _id unless set to 0; otherwise the fields set to 0 are dropped
Project(d, projection) ==
    IF projection = None THEN d
    ELSE LET p == projection[1]
             inclusion == \E f \in DOMAIN p \ {"_id"} : p[f] = 1
             dropped(f) == f \in DOMAIN p /\ p[f] = 0
             kept == IF inclusion
                     THEN {f \in DOMAIN d :
                             \/ f # "_id" /\ f \in DOMAIN p /\ p[f] = 1
                             \/ f = "_id" /\ ~dropped(f)}
                     ELSE {f \in DOMAIN d : ~dropped(f)}
         IN  Restrict(d, kept)

\* list(cursor): the query runs and its whole result is read
list_cursor(docs, cursor) ==
    LET matched == SelectSeq(docs, LAMBDA d : Matches(d, cursor.filter))
        sorted == IF cursor.sort = None THEN matched
                  ELSE SortDocs(matched, cursor.sort[1])
        limited == IF cursor.limit = 0 THEN sorted
                   ELSE SubSeq(sorted, 1, Min(cursor.limit, Len(sorted)))
    IN  [i \in 1..Len(limited) |-> Project(limited[i], cursor.projection)]

\* The document as stored: the store gives it an _id when it has none
WithId(d, id) == IF "_id" \in DOMAIN d THEN d ELSE d @@ ("_id" :> id)

\* The store after the first n documents of docs are inserted
RECURSIVE store_insert(_, _, _)
store_insert(st, docs, n) ==
    IF n = 0 THEN st
    ELSE LET before == store_insert(st, docs, n - 1)
         IN  [coll |-> Append(before.coll, WithId(docs[n], before.nextId)),
              nextId |-> before.nextId + 1]

\* UpdateOne(filter, update, upsert=upsert)
UpdateOne(filter, update, upsert) ==
    [filter |-> filter, update |-> update, upsert |-> upsert]

\* update's $set applied to d
ApplySet(d, update) ==
    LET set == update["$set"]
    IN  [f \in DOMAIN d \cup DOMAIN set |-> IF f \in DOMAIN set THEN set[f] ELSE d[f]]

\* One UpdateOne on the store: the first matching document is updated; with
\* none and upsert, a document of the filter's equalities and the $set fields
\* is inserted
store_update_one(st, op) ==
    LET hits == {i \in 1..Len(st.coll) : Matches(st.coll[i], op.filter)}
    IN  IF hits # {}
        THEN LET i == CHOOSE j \in hits : \A k \in hits : j <= k
                 d == ApplySet(st.coll[i], op.update)
             IN  [st EXCEPT !.coll[i] = d,
                            !.matched = @ + 1,
                            !.modified = @ + (IF d = st.coll[i] THEN 0 ELSE 1)]
        ELSE IF op.upsert
        THEN [st EXCEPT !.coll = Append(@, WithId(ApplySet(op.filter, op.update),
                                                  st.nextId)),
                        !.nextId = @ + 1,
                        !.upserted = @ + 1]
        ELSE st

\* The store after the first n operations of a bulk write, with its counts
RECURSIVE store_bulk_write(_, _, _)
store_bulk_write(st, operations, n) ==
    IF n = 0 THEN [coll |-> st.coll, nextId |-> st.nextId,
                   matched |-> 0, modified |-> 0, upserted |-> 0]
    ELSE store_update_one(store_bulk_write(st, operations, n - 1), operations[n])

\* The store after delete_many(filter)
store_delete_many(docs, filter) == SelectSeq(docs, LAMBDA d : ~Matches(d, filter))

Store == [coll |-> coll, nextId |-> nextId]

-----------------------------------------------------------------------------
(* The facades.  Each is one step; the client, db_name and collection_name  *)
(* arguments name the one collection of the model.  A value used more than *)
(* once is bound by \E over a singleton so that it is computed once.       *)

\* Truth value of an Optional list / an Optional int in an if
truthy_list(x) == x # None /\ x[1] # <<>>
truthy_int(x) == x # None /\ x[1] # 0

\* not l, for a list: the test of lines 143 and 179
no_guard(l) == FALSE
is_empty(l) == l = <<>>

\* fetch_cursor without line 118: the limit is never applied
fetch_cursor_unlimited(query, projection, sort, limit) ==
    LET q == IF query = None THEN <<>> ELSE query[1]
        c0 == find(q, projection)
    IN  IF truthy_list(sort) THEN cursor_sort(c0, sort[1]) ELSE c0

\* fetch_cursor that finds with the default filter whatever the query
fetch_cursor_match_all(query, projection, sort, limit) ==
    LET c0 == find(<<>>, projection)
        c1 == IF truthy_list(sort) THEN cursor_sort(c0, sort[1]) ELSE c0
    IN  IF truthy_int(limit) THEN cursor_limit(c1, limit[1]) ELSE c1

\* The cursor fetch_documents builds (lines 111-118)
fetch_cursor(query, projection, sort, limit) ==
    LET q == IF query = None THEN <<>> ELSE query[1]
        c0 == find(q, projection)
        c1 == IF truthy_list(sort) THEN cursor_sort(c0, sort[1]) ELSE c0
    IN  IF truthy_int(limit) THEN cursor_limit(c1, limit[1]) ELSE c1

\* fetch_documents(client, db_name, collection_name, query, projection, sort, limit)
fetch_documents(query, projection, sort, limit, err) ==
    LET cursor == fetch_cursor(query, projection, sort, limit)
    IN  /\ inv' = [fn |-> "fetch_documents", query |-> query,
                   projection |-> projection, sort |-> sort, limit |-> limit]
        /\ Forward(Request("find", cursor, err),
                   Some(list_cursor(coll, cursor)), <<>>)
        /\ UNCHANGED <<env, coll, nextId>>

\* insert_request without the single-document branch
insert_request_always_many(documents, err) ==
    Request("insert_many", [documents |-> documents], err)

\* The driver request insert_documents makes for a non-empty list (lines 150-155)
insert_request(documents, err) ==
    IF Len(documents) = 1
    THEN Request("insert_one", [document |-> documents[1]], err)
    ELSE Request("insert_many", [documents |-> documents], err)

\* insert_documents(client, db_name, collection_name, documents)
insert_documents(documents, fail) ==
    /\ inv' = [fn |-> "insert_documents", documents |-> documents]
    /\ IF is_empty(documents)
       THEN /\ Returns(<<>>, None, <<[msg |-> "No documents to insert."]>>)
            /\ UNCHANGED <<coll, nextId>>
       ELSE \E st \in {store_insert(Store, documents,
                                      Applied(Len(documents), fail))} :
                /\ Forward(insert_request(documents, fail.error), None,
                           <<[msg |-> "Inserted", count |-> Len(documents)]>>)
                /\ coll' = st.coll
                /\ nextId' = st.nextId
    /\ UNCHANGED env

\* Subscripting a dict with a key it lacks raises KeyError
HasKeys(u) == "filter" \in DOMAIN u /\ "update" \in DOMAIN u

\* operations_of that leaves upsert at UpdateOne's default
operations_of_unflagged(updates, upsert) ==
    [i \in 1..Len(updates) |->
        UpdateOne(updates[i]["filter"], updates[i]["update"], FALSE)]

\* The list comprehension of line 186, when no subscript raises
operations_of(updates, upsert) ==
    [i \in 1..Len(updates) |->
        UpdateOne(updates[i]["filter"], updates[i]["update"], upsert)]

\* The parameter upsert: False when the caller omits it (line 163)
upsert_of(upsert_arg) == IF upsert_arg = None THEN FALSE ELSE upsert_arg[1]

\* update_documents that sends each operation as soon as it is built
update_documents_eager(updates, upsert_arg, fail) ==
    LET bad == {i \in 1..Len(updates) : ~HasKeys(updates[i])}
        n == IF bad = {} THEN Len(updates)
             ELSE (CHOOSE i \in bad : \A j \in bad : i <= j) - 1
        operations == operations_of(SubSeq(updates, 1, n), upsert_of(upsert_arg))
        st == store_bulk_write(Store, operations, n)
    IN  /\ inv' = [fn |-> "update_documents", updates |-> updates,
                   upsert |-> upsert_arg]
        /\ calls' = [i \in 1..n |-> Request("update_one", operations[i], NoError)]
        /\ outcome' = IF bad = {} THEN "returned" ELSE "raised"
        /\ raised' = IF bad = {} THEN NoError ELSE "KeyError"
        /\ result' = None
        /\ stdout' = <<>>
        /\ coll' = st.coll
        /\ nextId' = st.nextId
        /\ UNCHANGED env

\* update_documents(client, db_name, collection_name, updates, upsert)
update_documents(updates, upsert_arg, fail) ==
    /\ inv' = [fn |-> "update_documents", updates |-> updates, upsert |-> upsert_arg]
    /\ IF is_empty(updates)
       THEN /\ Returns(<<>>, None, <<[msg |-> "No updates to perform."]>>)
            /\ UNCHANGED <<coll, nextId>>
       ELSE IF \E i \in 1..Len(updates) : ~HasKeys(updates[i])
       THEN /\ Raises(<<>>, "KeyError", <<>>)
            /\ UNCHANGED <<coll, nextId>>
       ELSE \E operations \in {operations_of(updates, upsert_of(upsert_arg))} :
            \E st \in {store_bulk_write(Store, operations,
                                       Applied(Len(operations), fail))} :
                /\ Forward(Request("bulk_write", [operations |-> operations],
                                   fail.error),
                           None,
                           <<[msg |-> "Matched, Modified, Upserted",
                              matched |-> st.matched, modified |-> st.modified,
                              upserted |-> st.upserted]>>)
                /\ coll' = st.coll
                /\ nextId' = st.nextId
    /\ UNCHANGED env

\* delete_documents(client, db_name, collection_name, query)
delete_documents(query, err) ==
    LET after == IF err = NoError THEN store_delete_many(coll, query) ELSE coll
    IN  /\ inv' = [fn |-> "delete_documents", query |-> query]
        /\ Forward(Request("delete_many", [filter |-> query], err), None,
                   <<[msg |-> "Deleted", count |-> Len(coll) - Len(after)]>>)
        /\ coll' = after
        /\ UNCHANGED <<env, nextId>>

-----------------------------------------------------------------------------
(* Inputs of get_mongo_client *)

HostChars == {"s", "r", "v", "h", "/", "?"}

RECURSIVE StringsUpTo(_, _)
StringsUpTo(chars, n) ==
    IF n = 0 THEN {<<>>}
    ELSE LET shorter == StringsUpTo(chars, n - 1)
         IN  shorter \cup {Append(s, c) : s \in shorter, c \in chars}

ExampleSrvHost ==
    <<"m","o","n","g","o","d","b","+","s","r","v",":","/","/",
      "h","o","s","t",".","e","x","a","m","p","l","e",".","c","o","m",
      "/","d","b","?","r","e","t","r","y","W","r","i","t","e","s","=","t","r","u","e">>
ExampleStdHost ==
    <<"m","o","n","g","o","d","b",":","/","/",
      "h","o","s","t",".","e","x","a","m","p","l","e",".","c","o","m","/","d","b">>
ExampleBareHost == <<"h","o","s","t",".","e","x","a","m","p","l","e",".","c","o","m">>
SrvBackupHost ==
    <<"s","r","v","-","b","a","c","k","u","p",".","e","x","a","m","p","l","e",".","c","o","m">>

ExampleHosts == {ExampleSrvHost, ExampleStdHost, ExampleBareHost, SrvBackupHost}

Hosts ==
    ExampleHosts \cup
    {pre \o s : pre \in {<<>>, SrvPrefix, StdPrefix},
                s \in StringsUpTo(HostChars, MaxHostLen)}

Usernames == {<<"u">>, <<"s","r","v">>}
Passwords == {<<"p">>}

-----------------------------------------------------------------------------
(* The connection builder alone, over every host string of the bounds *)

\* The state once the module is loaded, with configuration e (lines 36-42)
Loaded(e) ==
    /\ env = e
    /\ coll = <<>>
    /\ nextId = 1
    /\ inv = [fn |-> "none"]
    /\ calls = <<>>
    /\ outcome = "none"
    /\ raised = NoError
    /\ result = None
    /\ stdout = <<>>

InitClient ==
    \E host \in Hosts, username \in Usernames, password \in Passwords :
        Loaded([MONGO_HOST |-> host, MONGO_USERNAME |-> username,
                MONGO_PASSWORD |-> password])

\* Step 1 of the entry point (line 211)
Connect ==
    \E err \in DriverErrors \cup {NoError} :
        get_mongo_client(env.MONGO_HOST, env.MONGO_USERNAME, env.MONGO_PASSWORD, err)

NextClient == Connect

SpecClient == InitClient /\ [][NextClient]_vars

-----------------------------------------------------------------------------
(* Inputs of the facades *)

UserIds == {1, 2}

Documents == {("userId" :> u) : u \in UserIds}

Filters == {<<>>} \cup {("userId" :> u) : u \in UserIds}

RECURSIVE ListsUpTo(_, _)
ListsUpTo(S, n) ==
    IF n = 0 THEN {<<>>}
    ELSE LET shorter == ListsUpTo(S, n - 1)
         IN  shorter \cup {Append(l, x) : l \in shorter, x \in S}

Queries == {None} \cup {Some(f) : f \in Filters \ {<<>>}}
Projections == {None, Some(("_id" :> 0) @@ ("userId" :> 1))}
Sorts == {None, Some(<<>>), Some(<< <<"userId", -1>> >>)}
Limits == {None, Some(0), Some(1), Some(2)}

\* A projection is tried with the natural order only
ProjectionsAndSorts ==
    {ps \in Projections \X Sorts : ps[1] = None \/ ps[2] = None}

UpsertArgs == {None, Some(TRUE)}

DocumentLists == ListsUpTo(Documents, MaxBatch)

\* {"$set": {"userId": u}}
SetUserId(u) == [k \in {"$set"} |-> ("userId" :> u)]

\* Well-formed specifications, and one lacking each key
UpdateSpecs ==
    {("filter" :> ("userId" :> 1)) @@ ("update" :> SetUserId(2)),
     ("filter" :> ("userId" :> 2)) @@ ("update" :> SetUserId(1)),
     ("filter" :> ("userId" :> 1)),
     ("update" :> SetUserId(2))}

UpdateLists == ListsUpTo(UpdateSpecs, MaxBatch)

\* The ways a request of n operations can go; of none, when nothing is sent
Failures(n) ==
    {NoFailure} \cup {[error |-> e, at |-> k] : e \in DriverErrors, k \in 1..n}

OperationsSent(updates) ==
    IF \A i \in 1..Len(updates) : HasKeys(updates[i]) THEN Len(updates) ELSE 0

-----------------------------------------------------------------------------
(* The facades over one collection *)

Init ==
    Loaded([MONGO_HOST |-> SrvPrefix \o <<"h">>, MONGO_USERNAME |-> <<"u">>,
            MONGO_PASSWORD |-> <<"p">>])

Fetch ==
    \E query \in Queries, ps \in ProjectionsAndSorts,
       limit \in Limits, err \in DriverErrors \cup {NoError} :
        fetch_documents(query, ps[1], ps[2], limit, err)

Insert ==
    \E documents \in DocumentLists :
        \E fail \in Failures(Len(documents)) :
            /\ nextId + Len(documents) <= MaxIds + 1
            /\ insert_documents(documents, fail)

Update ==
    \E updates \in UpdateLists, upsert_arg \in UpsertArgs :
        \E fail \in Failures(OperationsSent(updates)) :
            /\ update_documents(updates, upsert_arg, fail)
            /\ nextId' <= MaxIds + 1

Delete ==
    \E query \in Filters, err \in DriverErrors \cup {NoError} :
        delete_documents(query, err)

Next == Connect \/ Fetch \/ Insert \/ Update \/ Delete

Spec == Init /\ [][Next]_vars

-----------------------------------------------------------------------------
(* Properties *)

Invoked(fn) == inv.fn = fn

\* The one request of the last invocation
TheRequest == calls[1]

\* C1: insert_documents with one document issues exactly one insert_one with
\* that document and no insert_many; with more than one document it issues
\* exactly one insert_many with the whole list in its order and no insert_one.
C1_InsertPath ==
    Invoked("insert_documents") =>
        /\ Len(inv.documents) = 1 =>
              /\ Len(calls) = 1
              /\ TheRequest.op = "insert_one"
              /\ TheRequest.args.document = inv.documents[1]
        /\ Len(inv.documents) > 1 =>
              /\ Len(calls) = 1
              /\ TheRequest.op = "insert_many"
              /\ TheRequest.args.documents = inv.documents

C1_Witness ==
    /\ Invoked("insert_documents")
    /\ inv.documents = <<("userId" :> 2), ("userId" :> 1)>>
    /\ outcome = "returned"
    /\ Len(calls) = 1
    /\ TheRequest.op = "insert_many"

\* C2: insert_documents with an empty list, and update_documents with an
\* empty list whatever upsert is, issue no request, leave the collection as
\* it was, and return normally.
C2_EmptyIsNoOp ==
    [][(\/ inv'.fn = "insert_documents" /\ inv'.documents = <<>>
        \/ inv'.fn = "update_documents" /\ inv'.updates = <<>>)
       => /\ calls' = <<>>
          /\ coll' = coll
          /\ nextId' = nextId
          /\ outcome' = "returned"
          /\ raised' = NoError]_vars

C2_Witness ==
    /\ Invoked("update_documents")
    /\ inv.updates = <<>>
    /\ inv.upsert = Some(TRUE)
    /\ calls = <<>>
    /\ outcome = "returned"
    /\ coll # <<>>

\* C3: update_documents with a non-empty list of specifications that all have
\* both keys issues exactly one bulk_write, whose i-th operation is an
\* UpdateOne of the i-th specification's filter and update, each with the
\* upsert flag of the call, False when it was omitted.
C3_OneBulkWrite ==
    (/\ Invoked("update_documents")
     /\ inv.updates # <<>>
     /\ \A i \in 1..Len(inv.updates) :
            {"filter", "update"} \subseteq DOMAIN inv.updates[i])
    => /\ Len(calls) = 1
       /\ TheRequest.op = "bulk_write"
       /\ Len(TheRequest.args.operations) = Len(inv.updates)
       /\ \A i \in 1..Len(inv.updates) :
            LET op == TheRequest.args.operations[i]
            IN  /\ op.filter = inv.updates[i]["filter"]
                /\ op.update = inv.updates[i]["update"]
                /\ op.upsert = (inv.upsert = Some(TRUE))

C3_Witness ==
    /\ Invoked("update_documents")
    /\ inv.upsert = Some(TRUE)
    /\ Len(inv.updates) = 2
    /\ inv.updates[1] # inv.updates[2]
    /\ outcome = "returned"
    /\ Len(calls) = 1
    /\ TheRequest.op = "bulk_write"
    /\ TheRequest.args.operations[1].upsert

\* The documents of the collection the query of the last fetch matches
MatchCount ==
    LET filter == IF inv.query = None THEN <<>> ELSE inv.query[1]
    IN  Cardinality({i \in 1..Len(coll) :
            \A f \in DOMAIN filter : f \in DOMAIN coll[i] /\ coll[i][f] = filter[f]})

\* C4: fetch_documents with limit 0 returns every document matching the
\* filter, as it does with limit omitted; with a limit n >= 1 it returns at
\* most n documents.
C4_ZeroLimitIsNoLimit ==
    (Invoked("fetch_documents") /\ outcome = "returned") =>
        /\ inv.limit \in {None, Some(0)} => Len(result[1]) = MatchCount
        /\ (inv.limit # None /\ inv.limit[1] >= 1) => Len(result[1]) <= inv.limit[1]

C4_Witness ==
    /\ Invoked("fetch_documents")
    /\ outcome = "returned"
    /\ inv.limit = Some(0)
    /\ inv.query = Some(("userId" :> 1))
    /\ Len(result[1]) = 2

\* The longest prefix of s that holds neither "/" nor "?"
RECURSIVE BareHost(_)
BareHost(s) ==
    IF s = <<>> \/ s[1] \in {"/", "?"} THEN <<>>
    ELSE <<s[1]>> \o BareHost(Tail(s))

Credentials == inv.username \o <<":">> \o inv.password \o <<"@">>

\* C5: for a host "mongodb+srv://" + h + optional "/"-path + optional
\* "?"-query, h holding neither "/" nor "?", the bare host is exactly h and
\* the connection URI is "mongodb+srv://" + username + ":" + password + "@" + h.
C5_SrvHostIsolated ==
    (Invoked("get_mongo_client") /\ startswith(inv.host, SrvPrefix)) =>
        LET h == BareHost(SubSeq(inv.host, Len(SrvPrefix) + 1, Len(inv.host)))
        IN  /\ host_clean_of(inv.host) = h
            /\ TheRequest.args.uri = SrvPrefix \o Credentials \o h

C5_Witness ==
    /\ Invoked("get_mongo_client")
    /\ inv.host = ExampleSrvHost
    /\ outcome = "returned"
    /\ result[1].uri = SrvPrefix \o Credentials \o ExampleBareHost

\* "srv" occurs in s
HasSrv(s) ==
    \E i \in 1..Len(s) :
        i + 2 <= Len(s) /\ s[i] = "s" /\ s[i + 1] = "r" /\ s[i + 2] = "v"

\* C6: the connection URI starts with "mongodb+srv://" exactly when the host
\* argument holds "srv" anywhere, and with "mongodb://" otherwise.
C6_SchemeBySubstring ==
    Invoked("get_mongo_client") =>
        /\ startswith(TheRequest.args.uri, SrvPrefix) <=> HasSrv(inv.host)
        /\ ~HasSrv(inv.host) => startswith(TheRequest.args.uri, StdPrefix)

C6_Witness ==
    /\ Invoked("get_mongo_client")
    /\ inv.host = SrvBackupHost
    /\ result = Some([uri |-> SrvPrefix \o Credentials \o SrvBackupHost])

\* d without its _id
WithoutId(d) == [f \in DOMAIN d \ {"_id"} |-> d[f]]

C8_NoRetry ==
    /\ Len(calls) <= 1
    /\ (calls # <<>> /\ TheRequest.error # NoError) =>
          /\ outcome = "raised"
          /\ raised = TheRequest.error

C8_Witness ==
    /\ Invoked("update_documents")
    /\ Len(calls) = 1
    /\ TheRequest.error = "PyMongoError"
    /\ outcome = "raised"
    /\ raised = "PyMongoError"

\* C9: for a host "mongodb://" + h + optional "/"-path + optional "?"-query,
\* h holding neither "/" nor "?", the prefix is stripped, the bare host is
\* exactly h, and h follows the credentials in the connection URI.
C9_StdHostIsolated ==
    (Invoked("get_mongo_client") /\ startswith(inv.host, StdPrefix)) =>
        LET h == BareHost(SubSeq(inv.host, Len(StdPrefix) + 1, Len(inv.host)))
        IN  /\ host_clean_of(inv.host) = h
            /\ \/ TheRequest.args.uri = StdPrefix \o Credentials \o h
               \/ TheRequest.args.uri = SrvPrefix \o Credentials \o h

\* C10: update_documents with a non-empty list in which some specification
\* lacks "filter" or "update" raises, issues no request and leaves the
\* collection as it was, whatever precedes that specification.
C10_ValidatedBeforeSend ==
    [][(/\ inv'.fn = "update_documents"
        /\ inv'.updates # <<>>
        /\ \E i \in 1..Len(inv'.updates) :
              ~({"filter", "update"} \subseteq DOMAIN inv'.updates[i]))
       => /\ outcome' = "raised"
          /\ raised' = "KeyError"
          /\ calls' = <<>>
          /\ coll' = coll
          /\ nextId' = nextId]_vars

C10_Witness ==
    /\ Invoked("update_documents")
    /\ Len(inv.updates) = 2
    /\ DOMAIN inv.updates[1] = {"filter", "update"}
    /\ DOMAIN inv.updates[2] = {"update"}
    /\ outcome = "raised"
    /\ raised = "KeyError"
    /\ calls = <<>>
    /\ \E j \in 1..Len(coll) : coll[j]["userId"] = inv.updates[1]["filter"]["userId"]

====
